---- MODULE Spec2Model ----
(***************************************************************************)
(* CHIP-8 engine of rust-8 (src/src/lib.rs) with the frame loop of its     *)
(* binary (src/src/main.rs).                                               *)
(*                                                                         *)
(* A machine is a record with the fields of struct Chip8.  The display     *)
(* grid [[bool; 64]; 32] is kept as the set of lit <<x, y>> coordinates:   *)
(* display[y][x] is true exactly when <<x, y>> is in the set.              *)
(* The memory array [u8; 4096] is kept as the map of its non-zero cells:   *)
(* peek reads a cell (0 when absent), poke writes one.  Indexing is        *)
(* bounds-checked by the operators that model the indexing code.           *)
(* u8 values are 0..255, u16 values 0..65535.                              *)
(***************************************************************************)
EXTENDS Integers, Sequences, FiniteSets, TLC

\* ------------------------------------------------------------------ bounds
\* Largest batch the frame loop asks for in the model (main.rs caps at 10).
MaxCycles == 3

\* --------------------------------------------------------------- constants
MEMORY_SIZE_KB == 4096
DISPLAY_SIZE_X_KB == 64
DISPLAY_SIZE_Y_KB == 32
FONT_MEMORY_START == 80
FONT_MEMORY_END == 159
STACK_SIZE == 16
ROM_START == 512
U8 == 256
U16 == 65536
\* usize::MAX; the model keeps it at the largest integer TLC represents,
\* it is only ever compared with STACK_SIZE.
USIZE_MAX == 2147483647

FONT_SET ==
  << 240, 144, 144, 144, 240,
     32, 96, 32, 32, 112,
     240, 16, 240, 128, 240,
     240, 16, 240, 16, 240,
     144, 144, 240, 16, 16,
     240, 128, 240, 16, 240,
     240, 128, 240, 144, 240,
     240, 16, 32, 64, 64,
     240, 144, 240, 144, 240,
     240, 144, 240, 16, 240,
     240, 144, 240, 144, 144,
     224, 144, 224, 144, 224,
     240, 128, 128, 128, 240,
     224, 144, 144, 144, 224,
     240, 128, 240, 128, 240,
     240, 128, 240, 128, 128 >>

\* ------------------------------------------------------------ bit helpers
Pow2(k) == CASE k = 0 -> 1 [] k = 1 -> 2 [] k = 2 -> 4 [] k = 3 -> 8
             [] k = 4 -> 16 [] k = 5 -> 32 [] k = 6 -> 64 [] k = 7 -> 128

\* bit k of byte b: (b >> k) & 1
Bit(b, k) == (b \div Pow2(k)) % 2

RECURSIVE BitFold(_, _, _, _)
BitFold(f, a, b, k) ==
  IF k > 7 THEN 0
  ELSE (IF f = "and" THEN Bit(a, k) * Bit(b, k)
        ELSE IF f = "or" THEN (IF Bit(a, k) + Bit(b, k) > 0 THEN 1 ELSE 0)
        ELSE (Bit(a, k) + Bit(b, k)) % 2) * Pow2(k)
       + BitFold(f, a, b, k + 1)

BitAnd(a, b) == BitFold("and", a, b, 0)
BitOr(a, b) == BitFold("or", a, b, 0)
BitXor(a, b) == BitFold("xor", a, b, 0)

\* ----------------------------------------------------------------- memory
peek(mem, a) == IF a \in DOMAIN mem THEN mem[a] ELSE 0

poke(mem, a, b) ==
  IF b = 0 THEN [k \in (DOMAIN mem) \ {a} |-> mem[k]]
  ELSE [k \in (DOMAIN mem) \cup {a} |-> IF k = a THEN b ELSE mem[k]]

\* copy_from_slice(bytes) onto memory[start .. start + Len(bytes)]
copy_from_slice(mem, start, bytes) ==
  LET cell(k) == IF k >= start /\ k < start + Len(bytes)
                 THEN bytes[k - start + 1] ELSE peek(mem, k)
      dom == { k \in (DOMAIN mem) \cup (start..(start + Len(bytes) - 1)) :
                 cell(k) # 0 }
  IN [k \in dom |-> cell(k)]

\* ------------------------------------------------------------ Chip8::new
\* Variant of new that copies the font to the start of memory.
new_font_at_zero ==
  [ memory |-> copy_from_slice(<<>>, 0, FONT_SET),
    display |-> {},
    update_display |-> TRUE,
    program_counter |-> 0,
    i |-> 0,
    stack |-> [s \in 0..(STACK_SIZE - 1) |-> 0],
    sp |-> 0,
    delay |-> 0,
    sound |-> 0,
    v |-> [r \in 0..15 |-> 0],
    keyboard |-> [k \in 0..15 |-> FALSE] ]

new ==
  [ memory |-> copy_from_slice(<<>>, FONT_MEMORY_START, FONT_SET),
    display |-> {},
    update_display |-> TRUE,
    program_counter |-> 0,
    i |-> 0,
    stack |-> [s \in 0..(STACK_SIZE - 1) |-> 0],
    sp |-> 0,
    delay |-> 0,
    sound |-> 0,
    v |-> [r \in 0..15 |-> 0],
    keyboard |-> [k \in 0..15 |-> FALSE] ]

\* Chip8::load_rom with the bytes read from the file; the slice copy panics
\* when the image does not fit.
load_rom(c, rom) ==
  IF ROM_START + Len(rom) > MEMORY_SIZE_KB
  THEN [res |-> "Panic", m |-> c]
  ELSE [res |-> "Ok",
        m |-> [c EXCEPT
                 !.memory = copy_from_slice(c.memory, ROM_START, rom),
                 !.program_counter = ROM_START]]

\* ---------------------------------------------------------- Chip8::fetch
\* Indexing memory out of bounds panics before the program counter moves.
fetch(c) ==
  LET pc == c.program_counter
      pc1 == (pc + 1) % U16
  IN IF pc >= MEMORY_SIZE_KB \/ pc1 >= MEMORY_SIZE_KB
     THEN [res |-> "Panic", opcode |-> 0, m |-> c]
     ELSE [res |-> "Ok",
           opcode |-> peek(c.memory, pc) * 256 + peek(c.memory, pc1),
           m |-> [c EXCEPT !.program_counter = (pc + 2) % U16]]

\* --------------------------------------------------------- Chip8::decode
\* Ok(instruction) is <<"Ok", <<variant, operands...>>>>,
\* Err(message) is <<"Err", <<text, opcode>>>>.
decode(opcode) ==
  LET first_nibble == opcode \div 4096
      x == (opcode \div 256) % 16
      y == (opcode \div 16) % 16
      n == opcode % 16
      nn == opcode % 256
      nnn == opcode % 4096
  IN CASE first_nibble = 0 ->
            (CASE nn = 224 -> <<"Ok", <<"Clear">>>>
               [] nn = 238 -> <<"Ok", <<"Return">>>>
               [] OTHER -> <<"Err", <<"Unknown 0x0 instruction", opcode>>>>)
       [] first_nibble = 1 -> <<"Ok", <<"Jump", nnn>>>>
       [] first_nibble = 2 -> <<"Ok", <<"Call", nnn>>>>
       [] first_nibble = 3 -> <<"Ok", <<"SEQ", x, nn>>>>
       [] first_nibble = 4 -> <<"Ok", <<"SNEQ", x, nn>>>>
       [] first_nibble = 5 -> <<"Ok", <<"SEQR", x, y>>>>
       [] first_nibble = 6 -> <<"Ok", <<"Set", x, nn>>>>
       [] first_nibble = 7 -> <<"Ok", <<"Add", x, nn>>>>
       [] first_nibble = 8 ->
            (CASE n = 0 -> <<"Ok", <<"SetRegister", x, y>>>>
               [] n = 1 -> <<"Ok", <<"OR", x, y>>>>
               [] n = 2 -> <<"Ok", <<"AND", x, y>>>>
               [] n = 3 -> <<"Ok", <<"XOR", x, y>>>>
               [] n = 4 -> <<"Ok", <<"AddRegister", x, y>>>>
               [] n = 5 -> <<"Ok", <<"Subtract", x, y>>>>
               [] n = 6 -> <<"Ok", <<"RShift", x, y>>>>
               [] n = 7 -> <<"Ok", <<"SubtractInv", x, y>>>>
               [] n = 14 -> <<"Ok", <<"LShift", x, y>>>>
               [] OTHER -> <<"Err", <<"Unknown 0x8 instruction", opcode>>>>)
       [] first_nibble = 9 -> <<"Ok", <<"SNEQR", x, y>>>>
       [] first_nibble = 10 -> <<"Ok", <<"SetIndex", nnn>>>>
       [] first_nibble = 11 -> <<"Ok", <<"JumpOffset", nnn>>>>
       [] first_nibble = 12 -> <<"Ok", <<"Random", x, nn>>>>
       [] first_nibble = 13 -> <<"Ok", <<"Display", x, y, n>>>>
       [] first_nibble = 15 ->
            (CASE nn = 7 -> <<"Ok", <<"GetDelayTimer", x>>>>
               [] nn = 21 -> <<"Ok", <<"SetDelayTimer", x>>>>
               [] nn = 24 -> <<"Ok", <<"SetSoundTimer", x>>>>
               [] nn = 41 -> <<"Ok", <<"GetFontCharacter", x>>>>
               [] nn = 51 -> <<"Ok", <<"BinaryToDecimal", x>>>>
               [] nn = 30 -> <<"Ok", <<"AddToIndex", x>>>>
               [] nn = 85 -> <<"Ok", <<"StoreMemory", x>>>>
               [] nn = 101 -> <<"Ok", <<"LoadMemory", x>>>>
               [] OTHER -> <<"Err", <<"Unknown 0xF instruction", opcode>>>>)
       [] OTHER -> <<"Err", <<"Unimplemented instruction", opcode>>>>

\* -------------------------------------------------------- Chip8::execute
\* Variant of draw_cols that switches a pixel on instead of toggling it.
RECURSIVE draw_cols_sets_pixel(_, _, _, _, _, _, _)
draw_cols_sets_pixel(disp, vf, sprite_byte, x0, y0, row, col) ==
  IF col >= 8 THEN <<disp, vf>>
  ELSE LET screen_x == x0 + col
           screen_y == y0 + row
           sprite_pixel == Bit(sprite_byte, 7 - col)
       IN IF screen_x >= DISPLAY_SIZE_X_KB \/ screen_y >= DISPLAY_SIZE_Y_KB
          THEN draw_cols_sets_pixel(disp, vf, sprite_byte, x0, y0, row, col + 1)
          ELSE IF sprite_pixel = 1
          THEN draw_cols_sets_pixel(disp \cup {<<screen_x, screen_y>>},
                         IF <<screen_x, screen_y>> \in disp THEN 1 ELSE vf,
                         sprite_byte, x0, y0, row, col + 1)
          ELSE draw_cols_sets_pixel(disp, vf, sprite_byte, x0, y0, row, col + 1)

\* Variant of draw_cols that wraps a pixel beyond the right or bottom edge
\* to the opposite edge instead of skipping it.
RECURSIVE draw_cols_wraps(_, _, _, _, _, _, _)
draw_cols_wraps(disp, vf, sprite_byte, x0, y0, row, col) ==
  IF col >= 8 THEN <<disp, vf>>
  ELSE LET screen_x == (x0 + col) % DISPLAY_SIZE_X_KB
           screen_y == (y0 + row) % DISPLAY_SIZE_Y_KB
           sprite_pixel == Bit(sprite_byte, 7 - col)
       IN IF sprite_pixel = 1
          THEN draw_cols_wraps(IF <<screen_x, screen_y>> \in disp
                         THEN disp \ {<<screen_x, screen_y>>}
                         ELSE disp \cup {<<screen_x, screen_y>>},
                         IF <<screen_x, screen_y>> \in disp THEN 1 ELSE vf,
                         sprite_byte, x0, y0, row, col + 1)
          ELSE draw_cols_wraps(disp, vf, sprite_byte, x0, y0, row, col + 1)

\* Inner loop of Instruction::Display: the 8 bits of one sprite row.
RECURSIVE draw_cols(_, _, _, _, _, _, _)
draw_cols(disp, vf, sprite_byte, x0, y0, row, col) ==
  IF col >= 8 THEN <<disp, vf>>
  ELSE LET screen_x == x0 + col
           screen_y == y0 + row
           sprite_pixel == Bit(sprite_byte, 7 - col)
       IN IF screen_x >= DISPLAY_SIZE_X_KB \/ screen_y >= DISPLAY_SIZE_Y_KB
          THEN draw_cols(disp, vf, sprite_byte, x0, y0, row, col + 1)
          ELSE IF sprite_pixel = 1
          THEN draw_cols(IF <<screen_x, screen_y>> \in disp
                         THEN disp \ {<<screen_x, screen_y>>}
                         ELSE disp \cup {<<screen_x, screen_y>>},
                         IF <<screen_x, screen_y>> \in disp THEN 1 ELSE vf,
                         sprite_byte, x0, y0, row, col + 1)
          ELSE draw_cols(disp, vf, sprite_byte, x0, y0, row, col + 1)

\* Outer loop of Instruction::Display: the sprite rows.  self.i + row is a
\* u16 addition (checked only when overflow checks are on) and the memory
\* index panics out of bounds, leaving the rows drawn so far.
RECURSIVE draw_rows(_, _, _, _, _, _, _, _)
draw_rows(c, x0, y0, n, row, disp, vf, overflow_checks) ==
  IF row >= n THEN [res |-> "Ok", display |-> disp, vf |-> vf]
  ELSE LET sum == c.i + row
           addr == sum % U16
       IN IF (sum >= U16 /\ overflow_checks) \/ addr >= MEMORY_SIZE_KB
          THEN [res |-> "Panic", display |-> disp, vf |-> vf]
          ELSE LET d == draw_cols(disp, vf, peek(c.memory, addr), x0, y0, row, 0)
               IN IF d = <<disp, vf>>   \* a row that changed nothing
                  THEN draw_rows(c, x0, y0, n, row + 1, disp, vf, overflow_checks)
                  ELSE draw_rows(c, x0, y0, n, row + 1, d[1], d[2], overflow_checks)

\* Variant of store_loop that stops before register x.
RECURSIVE store_loop_stops_short(_, _, _)
store_loop_stops_short(c, x, k) ==
  IF k >= x THEN [res |-> "Ok", m |-> c]
  ELSE IF c.i + k >= MEMORY_SIZE_KB THEN [res |-> "Panic", m |-> c]
  ELSE store_loop_stops_short(
         [c EXCEPT !.memory = poke(c.memory, c.i + k, c.v[k])], x, k + 1)

\* Loop of Instruction::StoreMemory, from index k to x inclusive.
RECURSIVE store_loop(_, _, _)
store_loop(c, x, k) ==
  IF k > x THEN [res |-> "Ok", m |-> c]
  ELSE IF c.i + k >= MEMORY_SIZE_KB THEN [res |-> "Panic", m |-> c]
  ELSE store_loop([c EXCEPT !.memory = poke(c.memory, c.i + k, c.v[k])], x, k + 1)

\* Loop of Instruction::LoadMemory, from index k to x inclusive.
RECURSIVE load_loop(_, _, _)
load_loop(c, x, k) ==
  IF k > x THEN [res |-> "Ok", m |-> c]
  ELSE IF c.i + k >= MEMORY_SIZE_KB THEN [res |-> "Panic", m |-> c]
  ELSE load_loop([c EXCEPT !.v[k] = peek(c.memory, c.i + k)], x, k + 1)

\* program_counter += 2 of the skip instructions (u16 addition).
skip(c, overflow_checks) ==
  IF c.program_counter + 2 >= U16 /\ overflow_checks
  THEN [res |-> "Panic", m |-> c]
  ELSE [res |-> "Ok",
        m |-> [c EXCEPT !.program_counter = (c.program_counter + 2) % U16]]

Done(c) == [res |-> "Ok", m |-> c]

\* Variant of exec_Display that starts from the VF it finds instead of 0.
exec_Display_keeps_flag(c, ins, overflow_checks) ==
  LET x0 == c.v[ins[2]] % DISPLAY_SIZE_X_KB
      y0 == c.v[ins[3]] % DISPLAY_SIZE_Y_KB
      d == draw_rows(c, x0, y0, ins[4], 0, c.display, c.v[15], overflow_checks)
      drawn == [c EXCEPT !.v[15] = d.vf, !.display = d.display]
  IN IF d.res = "Panic" THEN [res |-> "Panic", m |-> drawn]
     ELSE Done([drawn EXCEPT !.update_display = TRUE])

\* Variant of exec_Display that sets the update flag only when a pixel
\* changed.
exec_Display_marks_changes(c, ins, overflow_checks) ==
  LET x0 == c.v[ins[2]] % DISPLAY_SIZE_X_KB
      y0 == c.v[ins[3]] % DISPLAY_SIZE_Y_KB
      d == draw_rows(c, x0, y0, ins[4], 0, c.display, 0, overflow_checks)
      drawn == [c EXCEPT !.v[15] = d.vf, !.display = d.display]
  IN IF d.res = "Panic" THEN [res |-> "Panic", m |-> drawn]
     ELSE Done([drawn EXCEPT
                  !.update_display = (c.update_display \/ d.display # c.display)])

\* Instruction::Display: the start coordinates, VF = 0, the sprite rows,
\* update_display = true.
exec_Display(c, ins, overflow_checks) ==
  LET x0 == c.v[ins[2]] % DISPLAY_SIZE_X_KB
      y0 == c.v[ins[3]] % DISPLAY_SIZE_Y_KB
      d == draw_rows(c, x0, y0, ins[4], 0, c.display, 0, overflow_checks)
      drawn == [c EXCEPT !.v[15] = d.vf, !.display = d.display]
  IN IF d.res = "Panic" THEN [res |-> "Panic", m |-> drawn]
     ELSE Done([drawn EXCEPT !.update_display = TRUE])

\* Variant of exec_Clear that leaves the update flag as it was.
exec_Clear_keeps_flag(c) == Done([c EXCEPT !.display = {}])

\* self.display.fill([false; 64]); self.update_display = true
exec_Clear(c) == Done([c EXCEPT !.display = {}, !.update_display = TRUE])

\* Variant of exec_Add that saturates at 255 instead of wrapping.
exec_Add_saturates(c, x, nn) ==
  Done([c EXCEPT !.v[x] = IF c.v[x] + nn > 255 THEN 255 ELSE c.v[x] + nn])

\* self.v[x] = self.v[x].wrapping_add(nn)
exec_Add(c, x, nn) == Done([c EXCEPT !.v[x] = (c.v[x] + nn) % U8])

exec_AddRegister(c, x, y) ==
  LET sum == c.v[x] + c.v[y]
      result == sum % U8
      overflow == sum >= U8
      flagged == [c EXCEPT !.v[15] = IF overflow THEN 1 ELSE 0]
  IN Done([flagged EXCEPT !.v[x] = result])

exec_Subtract(c, x, y) ==
  LET flagged == [c EXCEPT !.v[15] = IF c.v[x] >= c.v[y] THEN 1 ELSE 0]
  IN Done([flagged EXCEPT !.v[x] = (flagged.v[x] - flagged.v[y]) % U8])

exec_SubtractInv(c, x, y) ==
  LET flagged == [c EXCEPT !.v[15] = IF c.v[y] >= c.v[x] THEN 1 ELSE 0]
  IN Done([flagged EXCEPT !.v[x] = (flagged.v[y] - flagged.v[x]) % U8])

\* Variant of exec_Call that pushes the address of the Call opcode itself.
exec_Call_pushes_own_address(c, nnn) ==
  IF c.sp >= STACK_SIZE THEN [res |-> "Panic", m |-> c]
  ELSE Done([c EXCEPT !.stack[c.sp] = c.program_counter - 2,
                      !.sp = c.sp + 1,
                      !.program_counter = nnn])

\* self.stack[self.sp] panics when sp is STACK_SIZE.
exec_Call(c, nnn) ==
  IF c.sp >= STACK_SIZE THEN [res |-> "Panic", m |-> c]
  ELSE Done([c EXCEPT !.stack[c.sp] = c.program_counter,
                      !.sp = c.sp + 1,
                      !.program_counter = nnn])

\* self.sp -= 1 on a usize: with overflow checks it panics at 0, without
\* them it wraps and the stack index panics.
exec_Return(c, overflow_checks) ==
  IF c.sp = 0 /\ overflow_checks THEN [res |-> "Panic", m |-> c]
  ELSE LET popped == [c EXCEPT !.sp = IF c.sp = 0 THEN USIZE_MAX ELSE c.sp - 1]
       IN IF popped.sp >= STACK_SIZE THEN [res |-> "Panic", m |-> popped]
          ELSE Done([popped EXCEPT !.program_counter = popped.stack[popped.sp]])

\* Variant of exec_BinaryToDecimal that stores Vx / 10 as the tens without
\* reducing it modulo 10.
exec_BinaryToDecimal_wide_tens(c, x) ==
  LET to_convert == c.v[x]
      m1 == [c EXCEPT !.memory = poke(c.memory, c.i, to_convert \div 100)]
      m2 == [m1 EXCEPT !.memory = poke(m1.memory, c.i + 1, to_convert \div 10)]
      m3 == [m2 EXCEPT !.memory = poke(m2.memory, c.i + 2, to_convert % 10)]
  IN IF c.i >= MEMORY_SIZE_KB THEN [res |-> "Panic", m |-> c]
     ELSE IF c.i + 1 >= MEMORY_SIZE_KB THEN [res |-> "Panic", m |-> m1]
     ELSE IF c.i + 2 >= MEMORY_SIZE_KB THEN [res |-> "Panic", m |-> m2]
     ELSE Done(m3)

\* Instruction::BinaryToDecimal: three indexed stores, each of which panics
\* out of bounds after the stores before it.
exec_BinaryToDecimal(c, x) ==
  LET to_convert == c.v[x]
      m1 == [c EXCEPT !.memory = poke(c.memory, c.i, to_convert \div 100)]
      m2 == [m1 EXCEPT
               !.memory = poke(m1.memory, c.i + 1, (to_convert \div 10) % 10)]
      m3 == [m2 EXCEPT !.memory = poke(m2.memory, c.i + 2, to_convert % 10)]
  IN IF c.i >= MEMORY_SIZE_KB THEN [res |-> "Panic", m |-> c]
     ELSE IF c.i + 1 >= MEMORY_SIZE_KB THEN [res |-> "Panic", m |-> m1]
     ELSE IF c.i + 2 >= MEMORY_SIZE_KB THEN [res |-> "Panic", m |-> m2]
     ELSE Done(m3)

\* execute(instruction): random_byte is the value rng.random::<u8>() returns,
\* overflow_checks tells whether the build checks integer overflow.
execute(c, ins, random_byte, overflow_checks) ==
  LET op == ins[1] IN
  CASE op = "Clear" -> exec_Clear(c)
    [] op = "Jump" -> Done([c EXCEPT !.program_counter = ins[2]])
    [] op = "JumpOffset" -> Done([c EXCEPT !.program_counter = ins[2] + c.v[0]])
    [] op = "Add" -> exec_Add(c, ins[2], ins[3])
    [] op = "Subtract" -> exec_Subtract(c, ins[2], ins[3])
    [] op = "SubtractInv" -> exec_SubtractInv(c, ins[2], ins[3])
    [] op = "Set" -> Done([c EXCEPT !.v[ins[2]] = ins[3]])
    [] op = "SetIndex" -> Done([c EXCEPT !.i = ins[2]])
    [] op = "Display" -> exec_Display(c, ins, overflow_checks)
    [] op = "AND" -> Done([c EXCEPT !.v[ins[2]] = BitAnd(c.v[ins[2]], c.v[ins[3]])])
    [] op = "OR" -> Done([c EXCEPT !.v[ins[2]] = BitOr(c.v[ins[2]], c.v[ins[3]])])
    [] op = "XOR" -> Done([c EXCEPT !.v[ins[2]] = BitXor(c.v[ins[2]], c.v[ins[3]])])
    [] op = "Random" -> Done([c EXCEPT !.v[ins[2]] = BitAnd(random_byte, ins[3])])
    [] op = "SEQ" -> IF c.v[ins[2]] = ins[3] THEN skip(c, overflow_checks) ELSE Done(c)
    [] op = "SNEQ" -> IF c.v[ins[2]] # ins[3] THEN skip(c, overflow_checks) ELSE Done(c)
    [] op = "SEQR" -> IF c.v[ins[2]] = c.v[ins[3]] THEN skip(c, overflow_checks) ELSE Done(c)
    [] op = "SNEQR" -> IF c.v[ins[2]] # c.v[ins[3]] THEN skip(c, overflow_checks) ELSE Done(c)
    [] op = "SetRegister" -> Done([c EXCEPT !.v[ins[2]] = c.v[ins[3]]])
    [] op = "AddRegister" -> exec_AddRegister(c, ins[2], ins[3])
    [] op = "GetDelayTimer" -> Done([c EXCEPT !.v[ins[2]] = c.delay])
    [] op = "SetDelayTimer" -> Done([c EXCEPT !.delay = c.v[ins[2]]])
    [] op = "SetSoundTimer" -> Done([c EXCEPT !.sound = c.v[ins[2]]])
    [] op = "Call" -> exec_Call(c, ins[2])
    [] op = "Return" -> exec_Return(c, overflow_checks)
    [] op = "AddToIndex" -> Done([c EXCEPT !.i = (c.i + c.v[ins[2]]) % U16])
    [] op = "StoreMemory" -> store_loop(c, ins[2], 0)
    [] op = "LoadMemory" -> load_loop(c, ins[2], 0)
    [] op = "GetFontCharacter" ->
         Done([c EXCEPT !.i = FONT_MEMORY_START + c.v[ins[2]] * 5])
    [] op = "BinaryToDecimal" -> exec_BinaryToDecimal(c, ins[2])
    [] op = "LShift" ->
         LET bit == Bit(c.v[ins[3]], 7)
             shifted == [c EXCEPT !.v[ins[2]] = (c.v[ins[3]] * 2) % U8]
         IN Done([shifted EXCEPT !.v[15] = bit])
    [] op = "RShift" ->
         LET bit == Bit(c.v[ins[3]], 0)
             shifted == [c EXCEPT !.v[ins[2]] = c.v[ins[3]] \div 2]
         IN Done([shifted EXCEPT !.v[15] = bit])
    [] OTHER -> Done(c)

\* Variant of cycle that drops a decode error and goes on.
cycle_ignores_decode_error(c, random_byte, overflow_checks) ==
  LET f == fetch(c) IN
  IF f.res = "Panic"
  THEN [res |-> "Panic", m |-> c, err |-> <<>>, ins |-> <<"None">>]
  ELSE LET d == decode(f.opcode) IN
       IF d[1] = "Err"
       THEN [res |-> "Ok", m |-> f.m, err |-> <<>>, ins |-> <<"None">>]
       ELSE LET e == execute(f.m, d[2], random_byte, overflow_checks)
            IN [res |-> e.res, m |-> e.m, err |-> <<>>, ins |-> d[2]]

\* One pass of fetch, decode and execute (the head of the loop in run).
\* res is "Ok", "Err" (a Result::Err returned by `?`) or "Panic".
cycle(c, random_byte, overflow_checks) ==
  LET f == fetch(c) IN
  IF f.res = "Panic"
  THEN [res |-> "Panic", m |-> c, err |-> <<>>, ins |-> <<"None">>]
  ELSE LET d == decode(f.opcode) IN
       IF d[1] = "Err"
       THEN [res |-> "Err", m |-> f.m, err |-> d[2], ins |-> <<"None">>]
       ELSE LET e == execute(f.m, d[2], random_byte, overflow_checks)
            IN [res |-> e.res, m |-> e.m, err |-> <<>>, ins |-> d[2]]

\* Variant of timer_update that decrements without the guards.
timer_update_unguarded(c) ==
  [c EXCEPT !.delay = (c.delay - 1) % U8, !.sound = (c.sound - 1) % U8]

\* Timer update of run, taken when a 60 Hz period has elapsed.
timer_update(c) ==
  LET d == IF c.delay > 0 THEN [c EXCEPT !.delay = c.delay - 1] ELSE c
  IN IF d.sound > 0 THEN [d EXCEPT !.sound = d.sound - 1] ELSE d

\* Display update of run: print_display and clear the flag.
display_update(c) == [c EXCEPT !.update_display = FALSE]

\* ------------------------------------------------- Chip8::run(max_cycles)
\* The batch the frame loop of main.rs asks for: up to max_cycles passes of
\* cycle, ended early by an error or by the key wait of Fx0A (GetKey with
\* no key pressed steps the program counter back onto the instruction).
\* trace is the sequence of opcodes fetched by the batch.
no_key(c) == \A k \in 0..15 : ~c.keyboard[k]

RECURSIVE step_loop(_, _, _, _, _)
step_loop(c, remaining, random_byte, overflow_checks, trace) ==
  IF remaining = 0
  THEN [res |-> "Ok", m |-> c, err |-> <<>>, trace |-> trace, awaiting |-> FALSE]
  ELSE LET f == fetch(c)
           r == cycle(c, random_byte, overflow_checks)
           seen == IF f.res = "Ok" THEN Append(trace, f.opcode) ELSE trace
       IN IF r.res # "Ok"
          THEN [res |-> r.res, m |-> r.m, err |-> r.err, trace |-> seen,
                awaiting |-> FALSE]
          ELSE IF r.ins[1] = "GetKey" /\ no_key(c)
          THEN [res |-> "Ok", m |-> [r.m EXCEPT !.program_counter = c.program_counter],
                err |-> <<>>, trace |-> seen, awaiting |-> TRUE]
          ELSE step_loop(r.m, remaining - 1, random_byte, overflow_checks, seen)

step(c, max_cycles, random_byte, overflow_checks) ==
  step_loop(c, max_cycles, random_byte, overflow_checks, <<>>)

\* ------------------------------------------------------------------ inputs
\* Two bytes of an opcode, big-endian, as a ROM image stores them.
Bytes(ops) ==
  [k \in 1..(2 * Len(ops)) |->
     IF k % 2 = 1 THEN ops[(k + 1) \div 2] \div 256 ELSE ops[k \div 2] % 256]

Set_(x, nn) == 24576 + 256 * x + nn          \* 6xnn
Alu_(x, y, n) == 32768 + 256 * x + 16 * y + n  \* 8xyn
Call_(nnn) == 8192 + nnn                     \* 2nnn
Jump_(nnn) == 4096 + nnn                     \* 1nnn
SetIndex_(nnn) == 40960 + nnn                \* Annn
Draw_(x, y, n) == 53248 + 256 * x + 16 * y + n \* Dxyn
F_(x, nn) == 61440 + 256 * x + nn            \* Fxnn
RETURN == 238                                \* 00EE
CLEAR == 224                                 \* 00E0

AluRegs == {0, 3, 15}
AluVals == {0, 1, 255}
AluOps == {4, 5, 7}
ArithRoms ==
  { <<Set_(x, a), Set_(y, b), Alu_(x, y, n)>> :
      <<x, y, a, b, n>> \in AluRegs \X AluRegs \X AluVals \X AluVals \X AluOps }

LogicRoms ==
  { <<Set_(1, a), Set_(2, b), Alu_(1, 2, n), Alu_(2, 1, 14), Alu_(15, 2, 6)>> :
      <<a, b, n>> \in {3, 170} \X {5, 255} \X {0, 1, 2, 3} }

CallRoms ==
  { <<Call_(518), Set_(0, 1), Jump_(516), Set_(1, 2), RETURN>>,
    <<Call_(516), Jump_(514), Call_(520), RETURN, RETURN>>,
    <<Call_(512)>>,
    <<RETURN>>,
    <<Call_(0)>>,
    <<Call_(4095)>>,
    <<Call_(4094)>>,
    <<Call_(514), RETURN, RETURN>>,
    <<Call_(516), Set_(4, 9), RETURN>>,
    <<Set_(0, 2), 45570, CLEAR, Call_(522), Jump_(520), F_(0, 30), RETURN>> }

TimerVals == {0, 1, 3, 255}
TimerRoms ==
  { <<Set_(2, a), F_(2, 21), Set_(2, b), F_(2, 24), F_(3, 7), Jump_(522)>> :
      <<a, b>> \in (TimerVals \ {255}) \X {0, 2} }
  \cup { <<Set_(2, 255), F_(2, 21), F_(2, 24), F_(3, 7), Set_(2, 0),
          F_(2, 24), F_(3, 7)>> }

DrawXs == {0, 61, 127}
DrawYs == {0, 30}
DrawIs == {0, 80, 85, 4094}
DrawNs == {0, 2, 5}
DrawRoms ==
  { <<Set_(0, sx), Set_(1, sy), SetIndex_(a), Draw_(0, 1, n), Draw_(0, 1, n),
      Draw_(0, 1, n)>> :
      <<sx, sy, a, n>> \in DrawXs \X DrawYs \X DrawIs \X DrawNs }
  \cup { <<SetIndex_(80), Draw_(15, 15, 5), Draw_(15, 15, 5), Draw_(15, 15, 5)>>,
         <<SetIndex_(85), Draw_(0, 15, 5), Draw_(0, 15, 5), CLEAR,
           Draw_(0, 15, 5)>> }

MiscRoms ==
  { <<Set_(0, 5), 12293, 0, 16389, 20480, 0, 36864, CLEAR>>,
    <<Set_(0, 7), 28921, 49167, F_(0, 41), F_(0, 51), F_(1, 85), F_(1, 101)>>,
    <<F_(0, 10), Set_(1, 1)>>,
    <<57502, Set_(1, 1)>>,
    <<SetIndex_(4095), Set_(0, 255), F_(0, 30), F_(0, 30), F_(0, 85)>> }

Add_(x, nn) == 28672 + 256 * x + nn          \* 7xnn
AddRoms ==
  { <<Set_(15, 9), Set_(r, a), Add_(r, nn), Add_(r, (256 - nn) % 256)>> :
      <<r, a, nn>> \in {0, 15} \X {0, 1, 255} \X {0, 1, 128, 255} }

\* Opcodes outside the instruction table, and the key skips.
OddOpcodes == {480, 291, 20497, 36881, 32792, 32783, 57505, 57502, 61695, 61450}
OddRoms ==
  { <<SetIndex_(768), Set_(0, 5), F_(0, 21), F_(0, 85), Call_(522), op,
      Set_(1, 1)>> : op \in OddOpcodes }

\* Sprites whose 1-bits are all clipped, draws after a clear, draws with
\* the timers running.
ScreenRoms ==
  { <<Set_(0, 61), SetIndex_(103), Draw_(0, 1, 2), Draw_(0, 1, 2)>>,
    <<SetIndex_(80), Draw_(0, 0, 5), CLEAR, Draw_(0, 0, 5), CLEAR, CLEAR>>,
    <<Set_(2, 3), F_(2, 21), F_(2, 24), Call_(522), 0, SetIndex_(80),
      Draw_(2, 2, 5), CLEAR, F_(2, 85)>>,
    <<Set_(15, 7), SetIndex_(90), Draw_(0, 0, 0), Draw_(0, 0, 3),
      Draw_(1, 1, 5)>> }

\* Fx29 on digits and on values above 0xF.
FontVals == {0, 9, 15, 16, 255}
FontRoms == { <<Set_(x, a), F_(x, 41)>> : <<x, a>> \in {0, 15} \X FontVals }

\* Fx33 on values of one, two and three digits, in free memory, over the
\* program itself and on the last three bytes of memory.
BcdVals == {0, 9, 10, 99, 100, 128, 255}
BcdIs == {514, 768, 4093}
BcdRoms ==
  { <<Set_(15, 9), SetIndex_(a), Set_(x, b), F_(x, 51)>> :
      <<x, a, b>> \in {0, 15} \X BcdIs \X BcdVals }

\* Fx55, changes to the stored registers, then Fx65, for the first one, two
\* and all sixteen registers, with the block in free memory, ending on the
\* last byte of memory, and running past it.
StoreXs == {0, 1, 15}
StoreIs == {768, 4080, 4094}
StoreRoms ==
  { <<Set_(15, 9), Set_(0, a), Set_(1, 3), SetIndex_(b), F_(x, 85),
      Set_(0, 77), Add_(1, 1), Set_(15, 1), F_(x, 101)>> :
      <<x, b, a>> \in StoreXs \X StoreIs \X {0, 200} }

\* A program that fills memory to its end: a jump to its last opcode, at
\* 0xFFE.
LastOpcode(op) ==
  [k \in 1..((MEMORY_SIZE_KB - ROM_START) \div 2) |->
     IF k = 1 THEN Jump_(MEMORY_SIZE_KB - 2)
     ELSE IF k = (MEMORY_SIZE_KB - ROM_START) \div 2 THEN op ELSE 0]

\* Jumps to 0xFFF and beyond, and a plain instruction, a skip and an
\* unknown opcode fetched at 0xFFE.
PcRoms ==
  { <<Jump_(4095)>>, <<Set_(0, 255), 48897, Set_(1, 1)>>, <<Jump_(4094)>>,
    LastOpcode(Set_(0, 0)), LastOpcode(12288) }

Roms == ArithRoms \cup LogicRoms \cup CallRoms \cup TimerRoms \cup DrawRoms
          \cup MiscRoms \cup AddRoms \cup OddRoms \cup ScreenRoms
          \cup FontRoms \cup BcdRoms \cup StoreRoms \cup PcRoms

FrameRoms ==
  { <<Set_(0, 5), F_(1, 10), Set_(2, 7), Jump_(518)>>,
    <<F_(0, 10)>>,
    <<Set_(0, 1), Set_(1, 2), Set_(2, 3), Jump_(512)>>,
    <<Call_(516), Jump_(514), Set_(3, 4), RETURN>>,
    <<Set_(0, 9), 57502, Set_(1, 1)>>,
    <<CLEAR, Set_(4, 4), Set_(5, 5), 65535>> }

RandomBytes == {165, 255}
KeySets == {{}, {5}, {3, 10}}

\* ------------------------------------------------------------------- state
VARIABLES memory, program_counter, i, stack, sp, delay, sound, v, display,
          update_display, keyboard, outcome, error, last, open_call

chip8 == <<memory, program_counter, i, stack, sp, delay, sound, v, display,
           update_display, keyboard>>
vars == <<memory, program_counter, i, stack, sp, delay, sound, v, display,
          update_display, keyboard, outcome, error, last, open_call>>

\* The machine as one record.
M ==
  [ memory |-> memory, program_counter |-> program_counter, i |-> i,
    stack |-> stack, sp |-> sp, delay |-> delay, sound |-> sound, v |-> v,
    display |-> display, update_display |-> update_display,
    keyboard |-> keyboard ]

Becomes(c) ==
  /\ memory' = c.memory
  /\ program_counter' = c.program_counter
  /\ i' = c.i
  /\ stack' = c.stack
  /\ sp' = c.sp
  /\ delay' = c.delay
  /\ sound' = c.sound
  /\ v' = c.v
  /\ display' = c.display
  /\ update_display' = c.update_display
  /\ keyboard' = c.keyboard

\* History kept for stating properties.  last describes the last operation:
\* its kind, the instruction it executed, its result, whether the timer
\* update ran and the timers between execute and that update, the batch
\* size, opcodes and key wait of a batch, pre = the machine fields it
\* started from, and prev = the same facts about the operation before it.
\* For an iteration of run, trace holds the opcode it fetched, pre_memory
\* the memory it started from and mid_update_display the update flag
\* between execute and the display update.  store is <<x, I, V>> of the last
\* completed Fx55 as long as no instruction has written memory or I since.
Fields(c) ==
  [ v |-> c.v, display |-> c.display, i |-> c.i, sp |-> c.sp,
    stack |-> c.stack, program_counter |-> c.program_counter,
    delay |-> c.delay, sound |-> c.sound,
    update_display |-> c.update_display ]

NoLast ==
  [ kind |-> "new", ins |-> <<"None">>, res |-> "Ok",
    timer_due |-> FALSE, mid_delay |-> 0, mid_sound |-> 0,
    mid_update_display |-> TRUE, pre_memory |-> <<>>, store |-> <<>>,
    max_cycles |-> 0, trace |-> <<>>, awaiting |-> FALSE,
    pre |-> Fields(new),
    prev |-> [kind |-> "new", ins |-> <<"None">>, res |-> "Ok",
              pre |-> Fields(new)] ]

\* outcome is the position of main: "Created" after Chip8::new, "Running"
\* in the loop, "Err" after run returned an error, "Panic" after a panic,
\* "Stopped" after Esc.
Is(c) ==
  /\ memory = c.memory /\ program_counter = c.program_counter /\ i = c.i
  /\ stack = c.stack /\ sp = c.sp /\ delay = c.delay /\ sound = c.sound
  /\ v = c.v /\ display = c.display /\ update_display = c.update_display
  /\ keyboard = c.keyboard

Init ==
  /\ Is(new)
  /\ outcome = "Created"
  /\ error = <<>>
  /\ last = NoLast
  /\ open_call = <<>>

Snapshot == Fields(M)

Earlier == [kind |-> last.kind, ins |-> last.ins, res |-> last.res,
            pre |-> last.pre]

\* ----------------------------------------------------------------- actions
\* main: Chip8::new().load_rom(path)
LoadRom(rom) ==
  /\ outcome = "Created"
  /\ LET r == load_rom(M, Bytes(rom))
     IN /\ Becomes(r.m)
        /\ outcome' = IF r.res = "Ok" THEN "Running" ELSE r.res
  /\ error' = <<>>
  /\ last' = [NoLast EXCEPT !.kind = "load_rom", !.pre = Snapshot,
                           !.prev = Earlier]
  /\ open_call' = <<>>

\* One iteration of the loop of Chip8::run: fetch, decode, execute, then the
\* timer update when its period has elapsed and the display update when its
\* period has elapsed and the flag is set.
Run ==
  /\ outcome = "Running"
  /\ \E random_byte \in RandomBytes, overflow_checks \in BOOLEAN :
       \E r \in {cycle(M, random_byte, overflow_checks)} :
       \E timer_due \in BOOLEAN, display_due \in BOOLEAN :
         LET timed == IF timer_due THEN timer_update(r.m) ELSE r.m
             shown == IF display_due /\ timed.update_display
                      THEN display_update(timed) ELSE timed
         IN /\ Becomes(IF r.res = "Ok" THEN shown ELSE r.m)
            /\ outcome' = IF r.res = "Ok" THEN "Running" ELSE r.res
            /\ error' = r.err
            /\ last' = [NoLast EXCEPT
                          !.kind = "run", !.ins = r.ins, !.res = r.res,
                          !.timer_due = (r.res = "Ok" /\ timer_due),
                          !.mid_delay = r.m.delay, !.mid_sound = r.m.sound,
                          !.mid_update_display = r.m.update_display,
                          !.pre_memory = memory,
                          !.trace = IF fetch(M).res = "Ok"
                                    THEN <<fetch(M).opcode>> ELSE <<>>,
                          !.store =
                            IF r.res # "Ok" THEN <<>>
                            ELSE IF r.ins[1] = "StoreMemory"
                            THEN <<r.ins[2], i, v>>
                            ELSE IF r.ins[1] \in {"BinaryToDecimal", "SetIndex",
                                                  "AddToIndex", "GetFontCharacter"}
                            THEN <<>>
                            ELSE last.store,
                          !.pre = Snapshot, !.prev = Earlier]
            /\ open_call' =
                 IF r.ins[1] = "Call" /\ r.res = "Ok" THEN <<program_counter, sp>>
                 ELSE IF r.ins[1] \in {"Call", "Return"} THEN <<>>
                 ELSE open_call

\* main: chip8.keyboard.fill(false), then one key set per key event read;
\* Esc leaves the main loop.
PollKeys ==
  /\ outcome = "Running"
  /\ \E pressed \in KeySets, esc \in BOOLEAN :
       /\ keyboard' = [k \in 0..15 |-> k \in pressed]
       /\ outcome' = IF esc THEN "Stopped" ELSE "Running"
  /\ last' = [NoLast EXCEPT !.kind = "poll", !.pre = Snapshot,
                           !.prev = Earlier]
  /\ UNCHANGED <<memory, program_counter, i, stack, sp, delay, sound, v,
                 display, update_display, error, open_call>>

\* main: chip8.run(ticks.min(10)); an error ends the main loop.
Step ==
  /\ outcome = "Running"
  /\ \E max_cycles \in 1..MaxCycles, random_byte \in RandomBytes,
        overflow_checks \in BOOLEAN :
       \E r \in {step(M, max_cycles, random_byte, overflow_checks)} :
          /\ Becomes(r.m)
          /\ outcome' = IF r.res = "Ok" THEN "Running" ELSE r.res
          /\ error' = r.err
          /\ last' = [NoLast EXCEPT
                        !.kind = "step", !.res = r.res,
                        !.max_cycles = max_cycles, !.trace = r.trace,
                        !.awaiting = r.awaiting, !.pre = Snapshot,
                        !.prev = Earlier]
  /\ open_call' = <<>>

\* The engine driven by its own loop (Chip8::run of lib.rs).
Next == (\E rom \in Roms : LoadRom(rom)) \/ Run
Spec == Init /\ [][Next]_vars

\* The engine driven by the frame loop of main.rs.
NextFrame == (\E rom \in FrameRoms : LoadRom(rom)) \/ PollKeys \/ Step
SpecFrame == Init /\ [][NextFrame]_vars

TypeOK ==
  /\ program_counter \in 0..(U16 - 1)
  /\ i \in 0..(U16 - 1)
  /\ delay \in 0..255 /\ sound \in 0..255
  /\ \A r \in 0..15 : v[r] \in 0..255
  /\ outcome \in {"Created", "Running", "Err", "Panic", "Stopped"}

\* ------------------------------------------------------------ properties
IsRun(l, name) == l.kind = "run" /\ l.ins[1] = name

\* C1: a Call executed with fewer than 16 stack entries succeeds, and the
\* Return that follows it with no other Call or Return in between sets the
\* program counter to the address of the Call plus 2 and the stack pointer
\* to its value before the Call.
C1_CallThenReturn ==
  [][ /\ (IsRun(last', "Call") /\ sp < STACK_SIZE) => last'.res = "Ok"
      /\ (IsRun(last', "Return") /\ Len(open_call) = 2) =>
           /\ last'.res = "Ok"
           /\ program_counter' = open_call[1] + 2
           /\ sp' = open_call[2] ]_vars

\* A Return has closed a Call that was separated from it by another
\* instruction (Set V1 = 2), back at the address after the Call.
C1_Witness ==
  /\ IsRun(last, "Return") /\ last.res = "Ok"
  /\ last.prev.ins[1] = "Set"
  /\ last.pre.sp = 1 /\ sp = 0
  /\ program_counter = ROM_START + 2

\* C2: a Call executed with 16 stack entries makes run return an error
\* value, leaves the stack pointer at 16 and the stack entries as they
\* were, and does not set the program counter to nnn.
C2_CallOverflowIsError ==
  (IsRun(last, "Call") /\ last.pre.sp = STACK_SIZE) =>
     /\ outcome = "Err"
     /\ sp = STACK_SIZE
     /\ stack = last.pre.stack
     /\ program_counter # last.ins[2]

\* C3: a Return executed with an empty stack makes run return an error
\* value, leaves the stack pointer at 0 and the program counter at the
\* address after the Return opcode.
C3_ReturnUnderflowIsError ==
  (IsRun(last, "Return") /\ last.pre.sp = 0) =>
     /\ outcome = "Err"
     /\ sp = 0
     /\ program_counter = last.pre.program_counter + 2

\* C4: the stack pointer is between 0 and 16 in every reachable state.
C4_StackPointerInRange == sp \in 0..STACK_SIZE

IsGetKeyOpcode(opcode) == opcode \div 4096 = 15 /\ opcode % 256 = 10

LowestPressed == CHOOSE k \in 0..15 :
                   keyboard[k] /\ \A j \in 0..(k - 1) : ~keyboard[j]

\* C5: a step that starts on an Fx0A with no key pressed leaves the program
\* counter on that instruction and the registers unchanged; a single-cycle
\* step that starts on it with a key pressed stores the lowest pressed key
\* in Vx and moves the program counter to the next instruction.
C5_KeyWaitHoldsProgramCounter ==
  (last.kind = "step" /\ Len(last.trace) >= 1 /\ IsGetKeyOpcode(last.trace[1])) =>
     IF no_key(M)
     THEN program_counter = last.pre.program_counter /\ v = last.pre.v
     ELSE last.max_cycles = 1 =>
            /\ v[(last.trace[1] \div 256) % 16] = LowestPressed
            /\ program_counter = last.pre.program_counter + 2

Decremented(t) == IF t > 0 THEN t - 1 ELSE 0

\* C7: a timer update takes 1 from each of delay and sound that is above 0
\* and leaves at 0 each that is 0, independently of the other.
C7_TimersFlooredAtZero ==
  (last.kind = "run" /\ last.timer_due) =>
     /\ delay = Decremented(last.mid_delay)
     /\ sound = Decremented(last.mid_sound)

\* A timer update has met a delay above 0 together with a sound of 0.
C7_Witness ==
  /\ last.kind = "run" /\ last.timer_due
  /\ last.mid_delay > 0 /\ last.mid_sound = 0
  /\ delay = last.mid_delay - 1 /\ sound = 0

\* The last two operations were the same Dxyn, both completed, started at
\* the same coordinates with the same I.
DoubleDraw ==
  /\ IsRun(last, "Display") /\ last.res = "Ok"
  /\ IsRun(last.prev, "Display") /\ last.prev.res = "Ok"
  /\ last.prev.ins = last.ins
  /\ last.prev.pre.v[last.ins[2]] % DISPLAY_SIZE_X_KB
       = last.pre.v[last.ins[2]] % DISPLAY_SIZE_X_KB
  /\ last.prev.pre.v[last.ins[3]] % DISPLAY_SIZE_Y_KB
       = last.pre.v[last.ins[3]] % DISPLAY_SIZE_Y_KB
  /\ last.prev.pre.i = last.pre.i

\* The pixels under the 1-bits of the sprite of the last Dxyn that fall
\* inside the grid.
SpriteOnes ==
  LET x0 == last.pre.v[last.ins[2]] % DISPLAY_SIZE_X_KB
      y0 == last.pre.v[last.ins[3]] % DISPLAY_SIZE_Y_KB
  IN { <<x0 + rc[2], y0 + rc[1]>> :
         rc \in { q \in (0..(last.ins[4] - 1)) \X (0..7) :
                    /\ x0 + q[2] < DISPLAY_SIZE_X_KB
                    /\ y0 + q[1] < DISPLAY_SIZE_Y_KB
                    /\ Bit(peek(memory, last.pre.i + q[1]), 7 - q[2]) = 1 } }

\* C8 as stated: the second of two equal draws restores the framebuffer and
\* leaves VF = 1 exactly when the sprite has a 1-bit inside the grid.
C8_DoubleDrawFlagOnAnyBit ==
  DoubleDraw =>
     /\ display = last.prev.pre.display
     /\ v[15] = IF SpriteOnes # {} THEN 1 ELSE 0

\* C8 amended: the second of two equal draws restores the framebuffer and
\* leaves VF = 1 exactly when the sprite has a 1-bit inside the grid on a
\* pixel that was off before the first draw.
C8_DoubleDrawRestores ==
  DoubleDraw =>
     /\ display = last.prev.pre.display
     /\ v[15] = IF \E p \in SpriteOnes : p \notin last.prev.pre.display
                THEN 1 ELSE 0

\* Two equal draws of a sprite clipped at the right edge have run on a
\* framebuffer that was lit under part of the sprite.
C8_Witness ==
  /\ DoubleDraw
  /\ last.pre.v[last.ins[2]] % DISPLAY_SIZE_X_KB = 61
  /\ SpriteOnes # {}
  /\ last.prev.pre.display # {}
  /\ display = last.prev.pre.display

\* C9: after 8xy4, VF is 1 when the sum of the values Vx and Vy held before
\* the instruction exceeds 255, and 0 otherwise, for every x and y.
C9_AddRegisterCarry ==
  IsRun(last, "AddRegister") =>
     v[15] = IF last.pre.v[last.ins[2]] + last.pre.v[last.ins[3]] > 255
             THEN 1 ELSE 0

\* C10: after 8xy5, VF is 1 when the value Vx held before the instruction is
\* at least the value Vy held before it, and 0 otherwise, for every x and y.
C10_SubtractNoBorrow ==
  IsRun(last, "Subtract") =>
     v[15] = IF last.pre.v[last.ins[2]] >= last.pre.v[last.ins[3]]
             THEN 1 ELSE 0

\* The last two operations were 7xnn on the same register, the second with
\* the operand (256 - nn) mod 256.
AddThenComplement ==
  /\ IsRun(last, "Add") /\ IsRun(last.prev, "Add")
  /\ last.ins[2] = last.prev.ins[2]
  /\ last.ins[3] = (256 - last.prev.ins[3]) % 256

\* C11: 7xnn followed by 7x((256 - nn) mod 256) on the same register leaves
\* that register at the value it held before the first, and a 7xnn changes
\* no register other than Vx (VF included).
C11_AddThenComplementRestores ==
  /\ AddThenComplement => v[last.ins[2]] = last.prev.pre.v[last.ins[2]]
  /\ IsRun(last, "Add") =>
       \A r \in (0..15) \ {last.ins[2]} : v[r] = last.pre.v[r]

\* An Add that wrapped past 255 and its complement have run on V0 while VF
\* held 9.
C11_Witness ==
  /\ AddThenComplement
  /\ last.ins[2] = 0
  /\ last.prev.pre.v[0] + last.prev.ins[3] > 255
  /\ v[0] = last.prev.pre.v[0]
  /\ v[15] = 9

\* The opcode matches a pattern of the instruction table: 00E0, 00EE, 1nnn
\* .. 4xnn, 5xy0, 6xnn, 7xnn, 8xy0..8xy7, 8xyE, 9xy0, Annn .. Dxyn, Ex9E,
\* ExA1, Fx07, Fx0A, Fx15, Fx18, Fx1E, Fx29, Fx33, Fx55, Fx65.
InTable(opcode) ==
  LET first_nibble == opcode \div 4096
      n == opcode % 16
      nn == opcode % 256
  IN CASE first_nibble = 0 -> opcode \in {224, 238}
       [] first_nibble \in {5, 9} -> n = 0
       [] first_nibble = 8 -> n \in (0..7) \cup {14}
       [] first_nibble = 14 -> nn \in {158, 161}
       [] first_nibble = 15 -> nn \in {7, 10, 21, 24, 30, 41, 51, 85, 101}
       [] OTHER -> TRUE

\* C12: an iteration that fetches an opcode matching no pattern of the
\* instruction table ends in a decode error carrying that opcode, and leaves
\* the registers, I, memory, the stack, the timers and the framebuffer as
\* they were.
C12_UnknownOpcodeFails ==
  (last.kind = "run" /\ Len(last.trace) = 1 /\ ~InTable(last.trace[1])) =>
     /\ last.res = "Err" /\ outcome = "Err"
     /\ Len(error) = 2 /\ error[2] = last.trace[1]
     /\ v = last.pre.v /\ i = last.pre.i /\ memory = last.pre_memory
     /\ stack = last.pre.stack /\ sp = last.pre.sp
     /\ delay = last.pre.delay /\ sound = last.pre.sound
     /\ display = last.pre.display

\* C13: Fx55, Fx65, Fx33 and Dxyn complete for every value of I they are
\* reached with; none of them ends in an access to memory outside 0..4095.
C13_MemoryAccessInBounds ==
  (last.kind = "run" /\ last.ins[1] \in {"StoreMemory", "LoadMemory",
                                         "BinaryToDecimal", "Display"}) =>
     last.res = "Ok"

\* C14: right after Chip8::new, memory 0x050..0x09F holds FONT_SET byte for
\* byte (0x050..0x054 = F0 90 90 90 F0), every other memory byte is 0, and
\* the program counter, I, the stack pointer, every V register, both timers,
\* every pixel and every key are zero or false.
C14_NewLoadsFont ==
  outcome = "Created" =>
     /\ \A a \in 0..(MEMORY_SIZE_KB - 1) :
          peek(memory, a) = IF a \in FONT_MEMORY_START..FONT_MEMORY_END
                            THEN FONT_SET[a - FONT_MEMORY_START + 1] ELSE 0
     /\ [k \in 0..4 |-> peek(memory, 80 + k)]
          = [k \in 0..4 |-> <<240, 144, 144, 144, 240>>[k + 1]]
     /\ program_counter = 0 /\ i = 0 /\ sp = 0
     /\ \A r \in 0..15 : v[r] = 0
     /\ delay = 0 /\ sound = 0
     /\ display = {}
     /\ \A k \in 0..15 : ~keyboard[k]

\* The machine is as Chip8::new left it, with the first and the last byte
\* of the font in place.
C14_Witness ==
  /\ outcome = "Created" /\ last.kind = "new"
  /\ peek(memory, FONT_MEMORY_START) = 240
  /\ peek(memory, FONT_MEMORY_END) = 128

\* C15: 00E0 leaves every pixel off and the update flag set, and changes no
\* register, memory byte, stack entry or timer, whatever the framebuffer and
\* the flag were.
C15_ClearScreen ==
  IsRun(last, "Clear") =>
     /\ last.res = "Ok"
     /\ display = {}
     /\ last.mid_update_display
     /\ v = last.pre.v /\ i = last.pre.i
     /\ memory = last.pre_memory
     /\ stack = last.pre.stack /\ sp = last.pre.sp
     /\ last.mid_delay = last.pre.delay /\ last.mid_sound = last.pre.sound

\* A 00E0 has run on a framebuffer with lit pixels whose update flag was
\* clear, with a timer running and an entry on the stack.
C15_Witness ==
  /\ IsRun(last, "Clear")
  /\ last.pre.display # {} /\ ~last.pre.update_display
  /\ last.pre.delay > 0 /\ last.pre.sp > 0
  /\ display = {} /\ last.mid_update_display

\* The key the keypad instruction of the last iteration asks about.
AskedKey == last.pre.v[(last.trace[1] \div 256) % 16] % 16

\* C16: Ex9E skips the next instruction exactly when key (Vx & 0xF) is
\* pressed and ExA1 exactly when it is not; neither changes the keypad or a
\* register.
C16_KeySkips ==
  (last.kind = "run" /\ Len(last.trace) = 1
     /\ last.trace[1] \div 4096 = 14 /\ last.trace[1] % 256 \in {158, 161}) =>
     /\ last.res = "Ok"
     /\ program_counter =
          IF keyboard[AskedKey] <=> (last.trace[1] % 256 = 158)
          THEN (last.pre.program_counter + 4) % U16
          ELSE (last.pre.program_counter + 2) % U16
     /\ v = last.pre.v

\* The pixels whose value differs from the one they had before the last
\* operation.
Toggled == (display \ last.pre.display) \cup (last.pre.display \ display)

\* C17: a completed Dxyn toggles exactly the pixels (sx + col, sy + row)
\* inside the grid, row < n, col < 8, under a 1-bit (7 - col) of
\* memory[I + row], with (sx, sy) = (Vx mod 64, Vy mod 32); every other
\* pixel keeps its value, so nothing appears on the opposite edge.
C17_DrawTogglesSpriteOnes ==
  (IsRun(last, "Display") /\ last.res = "Ok") => Toggled = SpriteOnes

\* A Dxyn of 5 rows has run at (61, 30), across the right and the bottom
\* edge, on a framebuffer with lit pixels, and has switched some of them off.
C17_Witness ==
  /\ IsRun(last, "Display") /\ last.res = "Ok"
  /\ last.pre.v[last.ins[2]] % DISPLAY_SIZE_X_KB = 61
  /\ last.pre.v[last.ins[3]] % DISPLAY_SIZE_Y_KB = 30
  /\ last.ins[4] = 5
  /\ Bit(peek(memory, last.pre.i), 4) = 1
  /\ last.pre.display # {} /\ last.pre.display \ display # {}
  /\ Toggled = SpriteOnes

\* C18: after a completed Dxyn, VF is 1 when an in-grid 1-bit of the sprite
\* fell on a pixel that was on before the draw (and so switched it off), and
\* 0 otherwise, whatever VF held before, also when n = 0 or every 1-bit is
\* clipped.
C18_DrawCollisionFlag ==
  (IsRun(last, "Display") /\ last.res = "Ok") =>
     v[15] = IF SpriteOnes \cap last.pre.display # {} THEN 1 ELSE 0

\* A Dxyn of no rows has run with VF = 7 and left VF = 0.
C18_Witness ==
  /\ IsRun(last, "Display") /\ last.res = "Ok"
  /\ last.ins[4] = 0
  /\ last.pre.v[15] = 7
  /\ v[15] = 0

\* A Dxyn has switched off a pixel that was on and left VF = 1.
C18_WitnessCollision ==
  /\ IsRun(last, "Display") /\ last.res = "Ok"
  /\ last.pre.display \ display # {}
  /\ v[15] = 1

\* C19: after every completed Dxyn the update flag is set, also when the
\* draw changed no pixel; and no instruction clears the flag: it is still
\* set after fetch, decode and execute whenever it was set before them.
C19_DrawSetsUpdateFlag ==
  /\ (IsRun(last, "Display") /\ last.res = "Ok") => last.mid_update_display
  /\ (last.kind = "run" /\ last.pre.update_display) => last.mid_update_display

\* A Dxyn that changed no pixel has run with the update flag clear and has
\* set it.
C19_Witness ==
  /\ IsRun(last, "Display") /\ last.res = "Ok"
  /\ ~last.pre.update_display
  /\ display = last.pre.display
  /\ last.mid_update_display

\* C20: for x other than F and every y (F included), after 8xy5 Vx is
\* (Vx - Vy) mod 256 and after 8xy7 Vx is (Vy - Vx) mod 256, taken on the
\* values the two registers held before the instruction.
C20_SubtractDifference ==
  /\ (IsRun(last, "Subtract") /\ last.ins[2] # 15) =>
        v[last.ins[2]] =
          (last.pre.v[last.ins[2]] - last.pre.v[last.ins[3]] + U8) % U8
  /\ (IsRun(last, "SubtractInv") /\ last.ins[2] # 15) =>
        v[last.ins[2]] =
          (last.pre.v[last.ins[3]] - last.pre.v[last.ins[2]] + U8) % U8

\* C21: after Fx29, I is the address of the glyph of digit (Vx & 0xF),
\* 0x050 + 5 * (Vx & 0xF), and so lies in 0x050..0x09B, for every Vx.
C21_FontCharacterAddress ==
  IsRun(last, "GetFontCharacter") =>
     /\ i = FONT_MEMORY_START + 5 * (last.pre.v[last.ins[2]] % 16)
     /\ i \in FONT_MEMORY_START..(FONT_MEMORY_END - 4)

\* C22: after a completed Fx33 (I + 2 <= 4095), memory[I], memory[I + 1] and
\* memory[I + 2] are decimal digits with 100 * memory[I] + 10 * memory[I + 1]
\* + memory[I + 2] = Vx; no other memory byte, no register and not I has
\* changed.
C22_BinaryToDecimalDigits ==
  (IsRun(last, "BinaryToDecimal") /\ last.res = "Ok") =>
     /\ \A k \in 0..2 : peek(memory, i + k) \in 0..9
     /\ 100 * peek(memory, i) + 10 * peek(memory, i + 1) + peek(memory, i + 2)
          = last.pre.v[last.ins[2]]
     /\ \A a \in (DOMAIN memory \cup DOMAIN last.pre_memory) \ (i..(i + 2)) :
          peek(memory, a) = peek(last.pre_memory, a)
     /\ v = last.pre.v /\ i = last.pre.i

\* Fx33 has stored the digits 2, 5, 5 of 255 in the last three bytes of
\* memory.
C22_Witness ==
  /\ IsRun(last, "BinaryToDecimal") /\ last.res = "Ok"
  /\ last.pre.v[last.ins[2]] = 255 /\ i = 4093
  /\ peek(memory, 4093) = 2 /\ peek(memory, 4094) = 5 /\ peek(memory, 4095) = 5

\* The bytes of memory outside first..last are as they were before the last
\* operation.
MemoryKeptOutside(first, last_) ==
  \A a \in (DOMAIN memory \cup DOMAIN last.pre_memory) \ (first..last_) :
     peek(memory, a) = peek(last.pre_memory, a)

\* C23: a completed Fx55 (I + x <= 4095) writes V0..Vx to memory[I..I + x]
\* and no other byte; an Fx65 with the same x that follows it, with only
\* registers changed in between, gives V0..Vx the values they had at the
\* store; both leave I and the registers above Vx as they were.
C23_StoreThenLoad ==
  /\ (IsRun(last, "StoreMemory") /\ last.res = "Ok") =>
        /\ \A k \in 0..last.ins[2] : peek(memory, i + k) = last.pre.v[k]
        /\ MemoryKeptOutside(i, i + last.ins[2])
        /\ i = last.pre.i /\ v = last.pre.v
  /\ (IsRun(last, "LoadMemory") /\ last.res = "Ok") =>
        /\ i = last.pre.i
        /\ \A r \in (last.ins[2] + 1)..15 : v[r] = last.pre.v[r]
        /\ (Len(last.store) = 3 /\ last.store[1] = last.ins[2]) =>
              \A k \in 0..last.ins[2] : v[k] = last.store[3][k]

\* Fx55 has stored all sixteen registers in the last sixteen bytes of
\* memory, V0, V1 and VF have been changed, and Fx65 has brought back the
\* stored values.
C23_Witness ==
  /\ IsRun(last, "LoadMemory") /\ last.res = "Ok"
  /\ last.ins[2] = 15 /\ i = 4080
  /\ Len(last.store) = 3 /\ last.store[1] = 15
  /\ last.pre.v[0] = 77 /\ last.pre.v[1] = 4 /\ last.pre.v[15] = 1
  /\ v[0] = 200 /\ v[1] = 3 /\ v[15] = 9

\* C24: while the program runs, the program counter is in 0..4095 and so is
\* the program counter plus 1: the next fetch reads two bytes of memory.
C24_ProgramCounterAddressable ==
  outcome = "Running" => program_counter + 1 <= MEMORY_SIZE_KB - 1

====
